---- MODULE Spec2Model ----
(***************************************************************************)
(* A model of the ADS forwarder's discovery scanner (src/scanner.rs) and   *)
(* of its framing utilities (src/util.rs).                                  *)
(*                                                                         *)
(* Four specifications share the module's variables:                       *)
(*   Spec     one call of Scanner::scan, one action per socket operation   *)
(*   MsgSpec  AdsMessage::new and the patch/read operations of an envelope *)
(*   IdSpec   AmsNetId::from_str and its Display implementation            *)
(*   NetSpec  in_same_net on three addresses                               *)
(*                                                                         *)
(* An Ipv4Addr is its four octets <<a, b, c, d>>; Into<u32> is the         *)
(* big-endian number of those octets, and a bitwise AND of two u32 is the  *)
(* octet-wise AND of their octets, so the 32 bits are all kept.            *)
(***************************************************************************)
EXTENDS Integers, Sequences, FiniteSets, TLC

VARIABLES
    \* ---- Scanner (src/scanner.rs)
    if_addrs,     \* Scanner.if_addrs: name -> <<address, netmask>>
    order,        \* the iteration order of if_addrs.values() (a HashMap's, arbitrary)
    what,         \* the Scan target of the call
    pc,           \* where the call is: call, bind, set_broadcast, set_read_timeout,
                  \* send_bc, send_cx, recv, done, panicked
    idx,          \* Scan::Everything: position in order of the interface being scanned
    bind_addr,    \* scan_addr's parameters
    send_addr,
    single_reply,
    udp,          \* the number of UdpSocket values alive (bound and not yet dropped)
    beckhoffs,    \* scan_addr's local vector
    all,          \* scan_inner's accumulator (Scan::Everything)
    result,       \* the vector scan returned
    outcome,      \* running | returned | panicked
    logged,       \* error!("during scan: ...") was called
    fault,        \* the panic that ended the call ("none": none did)
    \* ---- history of the call (what the environment saw)
    sent,         \* probes sent by the current invocation, in order
    invs,         \* the invocations so far: bind/send address, devices returned
    ioerr,        \* the socket operation that failed ("none": none did)
    nrecv,        \* datagrams received by the current invocation
    total,        \* datagrams received by the whole call
    lastrecv,     \* what the last recv_from gave: none | datagram | timeout | error;
                  \* break once a single-reply invocation left the loop
    \* ---- AdsMessage (src/util.rs)
    mpc,          \* input | msg | panicked
    buf,          \* the Vec<u8> (the input of new, then AdsMessage.0)
    buf0,         \* the buffer AdsMessage::new was given
    lastpatch,    \* the last patch called: <<which, id>>, or <<>>
    mfault,       \* the panic that ended it: none | slice (new) | assert (new) | patch
    \* ---- AmsNetId (src/util.rs)
    ipc,          \* input | parsed | shown
    parts,        \* the components the input string was written from
    str,          \* the input string, a sequence of characters
    parsed,       \* from_str's Result
    shown,        \* Display's output for the parsed identifier
    \* ---- in_same_net (src/util.rs)
    npc,          \* input | tested
    net1,         \* the arguments addr1, addr2 and netmask
    net2,
    netmask0,
    same          \* what in_same_net returned

scanvars == <<if_addrs, order, what, pc, idx, bind_addr, send_addr, single_reply,
              udp, beckhoffs, all, result, outcome, logged, fault,
              sent, invs, ioerr, nrecv, total, lastrecv>>
msgvars == <<mpc, buf, buf0, lastpatch, mfault>>
idvars == <<ipc, parts, str, parsed, shown>>
netvars == <<npc, net1, net2, netmask0, same>>
vars == <<scanvars, msgvars, idvars, netvars>>

-----------------------------------------------------------------------------
(* Bounds of the model *)

\* interfaces in the Interface Directory
MaxIfs == 2
\* datagrams received during one call of scan
MaxReplies == 2
\* bytes in a buffer given to AdsMessage::new
MaxBuf == 22
\* dot-separated components in a string given to AmsNetId::from_str
MaxParts == 7

-----------------------------------------------------------------------------
(* util.rs: ports and the same-subnet test *)

BECKHOFF_BC_UDP_PORT == 48847
BECKHOFF_UDP_PORT == 48899

Octet == 0..255

\* u8 & u8, bit by bit from the lowest (x & 0 is 0, x & 255 is x)
RECURSIVE AndBits(_, _)
AndBits(a, b) ==
    IF a = 0 \/ b = 0 THEN 0
    ELSE IF b = 255 THEN a
    ELSE IF a = 255 THEN b
    ELSE (a % 2) * (b % 2) + 2 * AndBits(a \div 2, b \div 2)

\* u32 & u32, on the four octets of each
AndU32(a, m) == [i \in 1..4 |-> AndBits(a[i], m[i])]

in_same_net_eqaddr(addr1, addr2, netmask) == addr1 = addr2

\* addr1 & netmask == addr2 & netmask
in_same_net(addr1, addr2, netmask) ==
    \A i \in 1..4 : AndBits(addr1[i], netmask[i]) = AndBits(addr2[i], netmask[i])

-----------------------------------------------------------------------------
(* The environment: local interfaces, devices, datagrams *)

IfNames == {"eth0", "eth1", "eth2"}

\* what find_ipv4_addrs() may report for each interface
IfPool ==
    [n \in IfNames |->
        CASE n = "eth0" -> << <<192, 168, 1, 10>>, <<255, 255, 255, 0>> >>
          [] n = "eth1" -> << <<192, 168, 2, 10>>, <<255, 255, 0, 0>> >>
          [] n = "eth2" -> << <<10, 0, 0, 5>>, <<255, 0, 0, 0>> >>]

\* source addresses of replies: in eth0's and eth1's subnets, in eth2's, in none
DevAddrs == { <<192, 168, 1, 20>>, <<10, 1, 2, 3>>, <<172, 16, 0, 9>> }

Wildcard == <<0, 0, 0, 0>>
Broadcast == <<255, 255, 255, 255>>

NetIdA == <<5, 18, 60, 7, 1, 1>>
NetIdB == <<10, 0, 0, 5, 1, 1>>

\* A reply's bytes, by what the two decoders make of them.
\*   bc: bc_scan_result_struct.unpack succeeds, giving bcid
\*   cx: UdpMessage::parse(reply, IDENTIFY) succeeds, giving cxid;
\*   fields: its info holds a non-empty HOST and a 4-byte VERSION
Payloads ==
    { [bc |-> TRUE,  bcid |-> NetIdA, cx |-> FALSE, cxid |-> NetIdA, fields |-> FALSE],
      [bc |-> FALSE, bcid |-> NetIdB, cx |-> TRUE,  cxid |-> NetIdB, fields |-> TRUE],
      [bc |-> FALSE, bcid |-> NetIdB, cx |-> TRUE,  cxid |-> NetIdB, fields |-> FALSE],
      [bc |-> TRUE,  bcid |-> NetIdA, cx |-> TRUE,  cxid |-> NetIdB, fields |-> TRUE],
      [bc |-> FALSE, bcid |-> NetIdA, cx |-> FALSE, cxid |-> NetIdA, fields |-> FALSE] }

\* the two discovery ports, and an ephemeral one
Ports == {BECKHOFF_BC_UDP_PORT, BECKHOFF_UDP_PORT, 50000}

Datagrams == [addr : DevAddrs, port : Ports, payload : Payloads]

Targets ==
    [kind : {"Everything"}, name : {""}, addr : {Wildcard}]
    \cup [kind : {"Interface"}, name : IfNames, addr : {Wildcard}]
    \cup [kind : {"Address"}, name : {""}, addr : DevAddrs]

\* the sequences that list each element of S once
Perms(S) ==
    { s \in [1..Cardinality(S) -> S] : \A x \in S : \E i \in DOMAIN s : s[i] = x }

-----------------------------------------------------------------------------
(* scanner.rs *)

if_exists(if_name) == if_name \in DOMAIN if_addrs

NoIf == <<>>

\* the positions in order of the interfaces whose network contains bh_addr
Matching(bh_addr) ==
    { i \in 1..Len(order) :
        in_same_net(bh_addr, if_addrs[order[i]][1], if_addrs[order[i]][2]) }

Least(S) == CHOOSE i \in S : \A j \in S : i <= j

find_if_addr_any(bh_addr) ==
    IF order = <<>> THEN NoIf ELSE if_addrs[order[1]][1]

\* the address of the first interface whose network contains bh_addr; NoIf
\* stands for the panic
find_if_addr(bh_addr) ==
    LET m == Matching(bh_addr)
    IN  IF m = {} THEN NoIf ELSE if_addrs[order[Least(m)]][1]

Beckhoff(if_addr, is_bc, bh_addr, netid) ==
    [if_addr |-> if_addr, is_bc |-> is_bc, bh_addr |-> bh_addr, netid |-> netid]

\* bc_scan_result_struct.unpack(reply): <<ok, netid>>
BcUnpack(p) == <<p.bc, p.bcid>>

\* UdpMessage::parse(reply, UdpMessage::IDENTIFY): <<ok, netid, fields present>>
UdpParse(p) == <<p.cx, p.cxid, p.fields>>

\* The body of the receive loop for one datagram: the panic it ends in
\* ("none": none) and the records it pushes.
Handled(why, recs) == [panic |-> why, push |-> recs]

\* a reply from outside every local subnet is dropped like an undecodable one
Found_skip(d, is_bc, netid) ==
    LET if_addr == find_if_addr(d.addr)
    IN  IF if_addr = NoIf
        THEN Handled("none", <<>>)
        ELSE Handled("none", << Beckhoff(if_addr, is_bc, d.addr, netid) >>)

\* Beckhoff { if_addr: self.find_if_addr(bh_addr), is_bc, bh_addr, netid }
Found(d, is_bc, netid) ==
    LET if_addr == find_if_addr(d.addr)
    IN  IF if_addr = NoIf
        THEN Handled("no local interface", <<>>)
        ELSE Handled("none", << Beckhoff(if_addr, is_bc, d.addr, netid) >>)

\* as if the modern parser were tried on what the legacy decode rejected
HandleReply_fallthrough(d) ==
    IF d.port = BECKHOFF_BC_UDP_PORT /\ BcUnpack(d.payload)[1]
    THEN Found(d, TRUE, BcUnpack(d.payload)[2])
    ELSE IF UdpParse(d.payload)[1]
         THEN IF ~UdpParse(d.payload)[3]
              THEN Handled("identify fields", <<>>)
              ELSE Found(d, FALSE, UdpParse(d.payload)[2])
         ELSE Handled("none", <<>>)

HandleReply(d) ==
    IF d.port = BECKHOFF_BC_UDP_PORT
    THEN IF BcUnpack(d.payload)[1]
         THEN Found(d, TRUE, BcUnpack(d.payload)[2])
         ELSE Handled("none", <<>>)
    ELSE IF UdpParse(d.payload)[1]
         THEN IF ~UdpParse(d.payload)[3]
              THEN \* info[&HOST], name.len() - 1, info[&VERSION], ver[3]
                   Handled("identify fields", <<>>)
              ELSE Found(d, FALSE, UdpParse(d.payload)[2])
         ELSE Handled("none", <<>>)

\* how it ended: "io" (a failed socket operation), "break", "timeout", "error"
InvRec(how, n, devs) ==
    [bind |-> bind_addr, dest |-> send_addr, single |-> single_reply,
     sent |-> sent, how |-> how, nrecv |-> n, devs |-> devs]

\* scan_inner(what).unwrap() in place of the match
ScanReturns_unwrap(v, err) ==
    /\ pc' = IF err THEN "panicked" ELSE "done"
    /\ outcome' = IF err THEN "panicked" ELSE "returned"
    /\ result' = IF err THEN <<>> ELSE v
    /\ logged' = FALSE
    /\ fault' = IF err THEN "unwrap" ELSE "none"

\* scan's match on scan_inner's result: Ok(v) => v; Err(e) => error!(..), Vec::new()
ScanReturns(v, err) ==
    /\ pc' = "done"
    /\ outcome' = "returned"
    /\ result' = IF err THEN <<>> ELSE v
    /\ logged' = err
    /\ fault' = "none"

\* A panic unwinds through scan_addr, scan_inner and scan: the socket is
\* dropped, nothing is returned.
Panics(why) ==
    /\ pc' = "panicked"
    /\ outcome' = "panicked"
    /\ fault' = why
    /\ udp' = 0
    /\ UNCHANGED <<result, logged>>

\* scan_addr's local state at its entry
Enters(b, s, sr) ==
    /\ pc' = "bind"
    /\ bind_addr' = b
    /\ send_addr' = s
    /\ single_reply' = sr
    /\ beckhoffs' = <<>>
    /\ sent' = <<>>
    /\ nrecv' = 0
    /\ lastrecv' = "none"
    /\ UNCHANGED <<outcome, result, logged, fault>>

\* scan_inner's arguments to scan_addr: <<bind_addr, send_addr, single_reply>>
AddressArgs_noflag(bh_addr) == <<Wildcard, bh_addr, FALSE>>

\* Scan::Address(bh_addr) => self.scan_addr([0, 0, 0, 0].into(), bh_addr, true)
AddressArgs(bh_addr) == <<Wildcard, bh_addr, TRUE>>

BroadcastArgs_wildcard(if_addr) == <<Wildcard, Broadcast, FALSE>>

BroadcastArgs_single(if_addr) == <<if_addr, Broadcast, TRUE>>

\* Scan::Interface, and each interface of Scan::Everything:
\* self.scan_addr(if_addr, broadcast, false)
BroadcastArgs(if_addr) == <<if_addr, Broadcast, FALSE>>

Extend_front(a, v) == v \o a

\* all.extend(v)
Extend(a, v) == a \o v

\* scan -> scan_inner, up to the first socket operation
Call ==
    /\ UNCHANGED <<msgvars, idvars, netvars>>
    /\ pc = "call"
    /\ CASE what.kind = "Address" ->
             /\ Enters(AddressArgs(what.addr)[1], AddressArgs(what.addr)[2],
                       AddressArgs(what.addr)[3])
             /\ UNCHANGED <<idx, all, udp, invs>>
         [] what.kind = "Interface" ->
             IF if_exists(what.name)
             THEN /\ Enters(BroadcastArgs(if_addrs[what.name][1])[1],
                            BroadcastArgs(if_addrs[what.name][1])[2],
                            BroadcastArgs(if_addrs[what.name][1])[3])
                  /\ UNCHANGED <<idx, all, udp, invs>>
             ELSE \* self.if_addrs[if_name]: HashMap's Index panics
                  /\ Panics("no such interface")
                  /\ UNCHANGED <<idx, all, invs, bind_addr, send_addr, single_reply,
                                 beckhoffs, sent, nrecv, lastrecv>>
         [] what.kind = "Everything" ->
             IF order = <<>>
             THEN /\ ScanReturns(<<>>, FALSE)
                  /\ UNCHANGED <<idx, all, udp, invs, bind_addr, send_addr, single_reply,
                                 beckhoffs, sent, nrecv, lastrecv>>
             ELSE /\ idx' = 1
                  /\ Enters(BroadcastArgs(if_addrs[order[1]][1])[1],
                            BroadcastArgs(if_addrs[order[1]][1])[2],
                            BroadcastArgs(if_addrs[order[1]][1])[3])
                  /\ UNCHANGED <<all, udp, invs>>
    /\ UNCHANGED <<if_addrs, order, what, ioerr, total>>

\* the error is logged and the devices collected so far are returned
IoFails_partial(step) ==
    /\ ioerr' = step
    /\ udp' = udp - (IF step = "bind" THEN 0 ELSE 1)
    /\ invs' = Append(invs, InvRec("io", nrecv, <<>>))
    /\ pc' = "done"
    /\ outcome' = "returned"
    /\ result' = all
    /\ logged' = TRUE
    /\ fault' = "none"
    /\ UNCHANGED <<if_addrs, order, what, idx, bind_addr, send_addr, single_reply,
                   beckhoffs, all, sent, nrecv, total, lastrecv>>

\* A socket operation fails: `?` returns the error from scan_addr (dropping
\* the socket) and from scan_inner, and scan logs it and returns Vec::new().
IoFails(step) ==
    /\ ioerr' = step
    /\ udp' = udp - (IF step = "bind" THEN 0 ELSE 1)
    /\ invs' = Append(invs, InvRec("io", nrecv, <<>>))
    /\ ScanReturns(<<>>, TRUE)
    /\ UNCHANGED <<if_addrs, order, what, idx, bind_addr, send_addr, single_reply,
                   beckhoffs, all, sent, nrecv, total, lastrecv>>

\* A socket operation that is no send or receive succeeds.
Proceeds(next, sock) ==
    /\ pc' = next
    /\ udp' = sock
    /\ UNCHANGED <<if_addrs, order, what, idx, bind_addr, send_addr, single_reply,
                   beckhoffs, all, result, outcome, logged, fault, sent, invs, ioerr,
                   nrecv, total, lastrecv>>

\* UdpSocket::bind((bind_addr, 0))?
Bind ==
    /\ UNCHANGED <<msgvars, idvars, netvars>>
    /\ pc = "bind"
    /\ \E ok \in BOOLEAN :
         IF ok THEN Proceeds("set_broadcast", udp + 1) ELSE IoFails("bind")

\* udp.set_broadcast(true)?
SetBroadcast ==
    /\ UNCHANGED <<msgvars, idvars, netvars>>
    /\ pc = "set_broadcast"
    /\ \E ok \in BOOLEAN :
         IF ok THEN Proceeds("set_read_timeout", udp) ELSE IoFails("set_broadcast")

\* udp.set_read_timeout(Some(500 ms))?
SetReadTimeout ==
    /\ UNCHANGED <<msgvars, idvars, netvars>>
    /\ pc = "set_read_timeout"
    /\ \E ok \in BOOLEAN :
         IF ok THEN Proceeds("send_bc", udp) ELSE IoFails("set_read_timeout")

\* both probes go to the identify port
Sends_oneport(next, port) ==
    /\ pc' = next
    /\ sent' = Append(sent, [dest |-> send_addr, port |-> BECKHOFF_UDP_PORT,
                             from |-> bind_addr])
    /\ UNCHANGED <<if_addrs, order, what, idx, bind_addr, send_addr, single_reply,
                   udp, beckhoffs, all, result, outcome, logged, fault, invs, ioerr,
                   nrecv, total, lastrecv>>

\* udp.send_to(&msg, (send_addr, port))?
Sends(next, port) ==
    /\ pc' = next
    /\ sent' = Append(sent, [dest |-> send_addr, port |-> port, from |-> bind_addr])
    /\ UNCHANGED <<if_addrs, order, what, idx, bind_addr, send_addr, single_reply,
                   udp, beckhoffs, all, result, outcome, logged, fault, invs, ioerr,
                   nrecv, total, lastrecv>>

SendBc ==
    /\ UNCHANGED <<msgvars, idvars, netvars>>
    /\ pc = "send_bc"
    /\ \E ok \in BOOLEAN :
         IF ok THEN Sends("send_cx", BECKHOFF_BC_UDP_PORT) ELSE IoFails("send_bc")

SendCx ==
    /\ UNCHANGED <<msgvars, idvars, netvars>>
    /\ pc = "send_cx"
    /\ \E ok \in BOOLEAN :
         IF ok THEN Sends("recv", BECKHOFF_UDP_PORT) ELSE IoFails("send_cx")

\* scan_addr returns Ok(v): the socket is dropped; scan_inner returns it
\* (Address, Interface) or extends all with it and goes on to the next
\* interface (Everything).
ScanAddrOk(v, how, n) ==
    /\ invs' = Append(invs, InvRec(how, n, v))
    /\ IF what.kind = "Everything"
       THEN /\ all' = Extend(all, v)
            /\ IF idx < Len(order)
               THEN /\ idx' = idx + 1
                    /\ udp' = udp - 1
                    /\ pc' = "bind"
                    /\ bind_addr' = BroadcastArgs(if_addrs[order[idx + 1]][1])[1]
                    /\ send_addr' = BroadcastArgs(if_addrs[order[idx + 1]][1])[2]
                    /\ single_reply' = BroadcastArgs(if_addrs[order[idx + 1]][1])[3]
                    /\ beckhoffs' = <<>>
                    /\ sent' = <<>>
                    /\ nrecv' = 0
                    /\ lastrecv' = "none"
                    /\ UNCHANGED <<outcome, result, logged, fault>>
               ELSE /\ ScanReturns(Extend(all, v), FALSE)
                    /\ udp' = udp - 1
                    /\ beckhoffs' = v
                    /\ nrecv' = n
                    /\ lastrecv' = how
                    /\ UNCHANGED <<idx, bind_addr, send_addr, single_reply, sent>>
       ELSE /\ ScanReturns(v, FALSE)
            /\ udp' = udp - 1
            /\ beckhoffs' = v
            /\ nrecv' = n
            /\ lastrecv' = how
            /\ UNCHANGED <<idx, all, bind_addr, send_addr, single_reply, sent>>

\* udp.recv_from gives a datagram: the loop's body runs on it
RecvDatagram(d) ==
    LET h == HandleReply(d)
    IN  /\ total < MaxReplies
        /\ total' = total + 1
        /\ IF h.panic # "none"
           THEN /\ Panics(h.panic)
                /\ nrecv' = nrecv + 1
                /\ lastrecv' = "datagram"
                /\ UNCHANGED <<idx, all, bind_addr, send_addr, single_reply, beckhoffs,
                               sent, invs>>
           ELSE IF single_reply
                THEN \* break
                     ScanAddrOk(beckhoffs \o h.push, "break", nrecv + 1)
                ELSE /\ beckhoffs' = beckhoffs \o h.push
                     /\ nrecv' = nrecv + 1
                     /\ lastrecv' = "datagram"
                     /\ UNCHANGED <<pc, idx, all, bind_addr, send_addr, single_reply,
                                    udp, result, outcome, logged, fault, sent, invs>>
        /\ UNCHANGED <<if_addrs, order, what, ioerr>>

\* udp.recv_from(&mut reply)? in place of `while let Ok(..)`
RecvErr_propagate(why) ==
    /\ ioerr' = "recv"
    /\ udp' = udp - 1
    /\ invs' = Append(invs, InvRec("io", nrecv, <<>>))
    /\ ScanReturns(<<>>, TRUE)
    /\ lastrecv' = why
    /\ UNCHANGED <<if_addrs, order, what, idx, bind_addr, send_addr, single_reply,
                   beckhoffs, all, sent, nrecv, total>>

\* the failed receive ends the loop and the devices found are dropped
RecvErr_discard(why) ==
    /\ ScanAddrOk(<<>>, why, nrecv)
    /\ UNCHANGED <<if_addrs, order, what, ioerr, total>>

\* udp.recv_from gives Err (the timeout's WouldBlock/TimedOut, or another
\* error): `while let Ok(..)` ends the loop
RecvErr(why) ==
    /\ ScanAddrOk(beckhoffs, why, nrecv)
    /\ UNCHANGED <<if_addrs, order, what, ioerr, total>>

Recv ==
    /\ UNCHANGED <<msgvars, idvars, netvars>>
    /\ pc = "recv"
    /\ \/ \E d \in Datagrams : RecvDatagram(d)
       \/ \E why \in {"timeout", "error"} : RecvErr(why)

ScanInit ==
    /\ \E D \in SUBSET IfNames :
         /\ Cardinality(D) <= MaxIfs
         /\ if_addrs = [n \in D |-> IfPool[n]]
         /\ order \in Perms(D)
    /\ what \in Targets
    /\ pc = "call"
    /\ idx = 0
    /\ bind_addr = Wildcard
    /\ send_addr = Wildcard
    /\ single_reply = FALSE
    /\ udp = 0
    /\ beckhoffs = <<>>
    /\ all = <<>>
    /\ result = <<>>
    /\ outcome = "running"
    /\ logged = FALSE
    /\ fault = "none"
    /\ sent = <<>>
    /\ invs = <<>>
    /\ ioerr = "none"
    /\ nrecv = 0
    /\ total = 0
    /\ lastrecv = "none"

\* the components a specification does not use stay as they are here
ScanIdle ==
    /\ if_addrs = <<>>
    /\ order = <<>>
    /\ what = <<>>
    /\ pc = "idle"
    /\ idx = 0
    /\ bind_addr = Wildcard
    /\ send_addr = Wildcard
    /\ single_reply = FALSE
    /\ udp = 0
    /\ beckhoffs = <<>>
    /\ all = <<>>
    /\ result = <<>>
    /\ outcome = "idle"
    /\ logged = FALSE
    /\ fault = "none"
    /\ sent = <<>>
    /\ invs = <<>>
    /\ ioerr = "none"
    /\ nrecv = 0
    /\ total = 0
    /\ lastrecv = "none"

MsgIdle ==
    mpc = "idle" /\ buf = <<>> /\ buf0 = <<>> /\ lastpatch = <<>> /\ mfault = "none"

IdIdle ==
    ipc = "idle" /\ parts = <<>> /\ str = <<>> /\ parsed = <<>> /\ shown = <<>>

NetIdle ==
    /\ npc = "idle"
    /\ net1 = Wildcard
    /\ net2 = Wildcard
    /\ netmask0 = Wildcard
    /\ same = FALSE

Init == ScanInit /\ MsgIdle /\ IdIdle /\ NetIdle

Next ==
    \/ Call
    \/ Bind
    \/ SetBroadcast
    \/ SetReadTimeout
    \/ SendBc
    \/ SendCx
    \/ Recv

Spec == Init /\ [][Next]_vars

\* recv_from returns: the read timeout is set before the first receive
FairSpec == Spec /\ WF_vars(Recv)

-----------------------------------------------------------------------------
(* Claims about Scanner::scan *)

Both == <<BECKHOFF_BC_UDP_PORT, BECKHOFF_UDP_PORT>>

\* the ports of the probes sent, in order
PortsOf(probes) == [i \in DOMAIN probes |-> probes[i].port]

RECURSIVE Concat(_)
Concat(ss) == IF ss = <<>> THEN <<>> ELSE Head(ss) \o Concat(Tail(ss))

\* the device lists of the invocations so far, in the order they ran
DevsOf(is) == Concat([i \in DOMAIN is |-> is[i].devs])

\* C1: whenever a socket operation (bind, set_broadcast, set_read_timeout,
\* either send) has failed, whatever the target, scan has returned normally:
\* no panic, and the list returned is empty or the devices collected before
\* the failure.
C1_IoFailureReturnsList ==
    ioerr # "none" =>
        /\ pc = "done"
        /\ outcome = "returned"
        /\ fault = "none"
        /\ result = <<>> \/ result = all

\* an Everything scan whose second sub-scan failed to send the identify
\* probe, after the first had collected a device
C1_Witness ==
    /\ what.kind = "Everything"
    /\ ioerr = "send_cx"
    /\ Len(invs) = 2
    /\ all # <<>>
    /\ outcome = "returned"

\* the interface contains the device: a directory entry with this address
\* whose mask gives the same network for both
Owns(if_addr, bh_addr) ==
    \E n \in DOMAIN if_addrs :
        /\ if_addrs[n][1] = if_addr
        /\ AndU32(if_addr, if_addrs[n][2]) = AndU32(bh_addr, if_addrs[n][2])

\* C2: every record of a list scan returned, and of the lists being built,
\* carries the address of a directory interface whose subnet contains the
\* device's address.
C2_OwningInterfaceContainsDevice ==
    /\ \A i \in DOMAIN result : Owns(result[i].if_addr, result[i].bh_addr)
    /\ \A i \in DOMAIN beckhoffs : Owns(beckhoffs[i].if_addr, beckhoffs[i].bh_addr)
    /\ \A i \in DOMAIN all : Owns(all[i].if_addr, all[i].bh_addr)

\* a single-address scan (bound to 0.0.0.0) returned a device, with two
\* interfaces in the directory
C2_Witness ==
    /\ what.kind = "Address"
    /\ pc = "done"
    /\ bind_addr = Wildcard
    /\ Len(result) = 1
    /\ Len(order) = 2

\* the reply is one the loop's body decodes: by the legacy layout when it
\* comes from the legacy port, as an identify response otherwise
Decoded(d) ==
    \/ d.port = BECKHOFF_BC_UDP_PORT /\ d.payload.bc
    \/ d.port # BECKHOFF_BC_UDP_PORT /\ d.payload.cx

\* the address lies in the subnet of no directory interface
Foreign(addr) ==
    \A n \in DOMAIN if_addrs :
        \E i \in 1..4 :
            AndBits(addr[i], if_addrs[n][2][i]) # AndBits(if_addrs[n][1][i], if_addrs[n][2][i])

\* the step is the receive of a decoded reply from an address in no local subnet
ForeignReplyStep ==
    /\ pc = "recv"
    /\ total' = total + 1
    /\ \E a \in DevAddrs :
         /\ Foreign(a)
         /\ \E p \in Ports, b \in Payloads :
              /\ Decoded([addr |-> a, port |-> p, payload |-> b])
              /\ RecvDatagram([addr |-> a, port |-> p, payload |-> b])

\* C3: receiving a decoded reply from an address in no local subnet ends
\* the call in a panic: no record is added for it, nothing is returned or
\* logged, and a panicked call takes no further step (it is not turned into
\* the empty list of the I/O failures).
C3_ForeignReplyIsFatal ==
    /\ [][ForeignReplyStep =>
            /\ outcome' = "panicked"
            /\ pc' = "panicked"
            /\ beckhoffs' = beckhoffs
            /\ all' = all
            /\ result' = <<>>
            /\ ~logged']_vars
    /\ [][outcome # "panicked"]_vars
    /\ [](outcome = "panicked" => pc = "panicked" /\ result = <<>> /\ ~logged)

\* an Everything scan that had collected a device panicked on a reply from
\* no local subnet
C3_Witness ==
    /\ fault = "no local interface"
    /\ what.kind = "Everything"
    /\ all # <<>>
    /\ outcome = "panicked"

\* C4: a single-address scan reaches its receive with both probes sent and
\* nothing received; when that receive times out, scan returns the empty
\* list without logging an error; and the call ends once it is receiving.
C4_SilentAddressReturnsEmpty ==
    /\ []((what.kind = "Address" /\ pc = "recv") =>
            (nrecv = 0 /\ PortsOf(sent) = Both /\ beckhoffs = <<>>))
    /\ [][(what.kind = "Address" /\ pc = "recv" /\ lastrecv' = "timeout") =>
            /\ pc' = "done"
            /\ outcome' = "returned"
            /\ result' = <<>>
            /\ ~logged'
            /\ ioerr' = "none"
            /\ total' = 0]_vars
    /\ ((what.kind = "Address" /\ pc = "recv") ~> (pc \in {"done", "panicked"}))

\* a single-address scan that received nothing has returned on the timeout
C4_Witness ==
    /\ what.kind = "Address"
    /\ pc = "done"
    /\ lastrecv = "timeout"
    /\ total = 0
    /\ PortsOf(sent) = Both
    /\ result = <<>>

\* C5: a single-address scan binds to 0.0.0.0, sends only to the given
\* address, runs one invocation, receives at most one datagram and returns
\* at most one device; it is never back at the receive after a datagram,
\* and having received one it has left the loop by the break.
C5_AddressScanOneReply ==
    what.kind = "Address" =>
        /\ pc # "call" => (bind_addr = Wildcard /\ send_addr = what.addr)
        /\ \A i \in DOMAIN sent : sent[i].dest = what.addr /\ sent[i].from = Wildcard
        /\ Len(invs) <= 1
        /\ nrecv <= 1
        /\ total <= 1
        /\ Len(beckhoffs) <= 1
        /\ Len(result) <= 1
        /\ pc = "recv" => nrecv = 0
        /\ (pc = "done" /\ nrecv = 1) => lastrecv = "break"

\* a single-address scan returned the one device whose reply it received
C5_Witness ==
    /\ what.kind = "Address"
    /\ pc = "done"
    /\ nrecv = 1
    /\ lastrecv = "break"
    /\ Len(result) = 1
    /\ result[1].bh_addr = what.addr

\* C6 as claimed: an Everything scan that returned has run the broadcast
\* procedure (both probes) once for each interface, in order, and returns
\* the concatenation of the sub-scans' lists.
C6_Original ==
    (what.kind = "Everything" /\ pc = "done") =>
        /\ Len(invs) = Len(order)
        /\ \A i \in DOMAIN invs :
              /\ invs[i].bind = if_addrs[order[i]][1]
              /\ invs[i].dest = Broadcast
              /\ PortsOf(invs[i].sent) = Both
        /\ result = DevsOf(invs)

\* C6, amended: an Everything scan runs its sub-scans one at a time (at
\* most one socket alive, none when the next binds), for the interfaces in
\* iteration order and at most once each, bound to the interface's address
\* and sending to 255.255.255.255; all is the concatenation of the lists
\* so far; a scan that returned without a failed socket operation ran the
\* procedure once for every interface and returned the concatenation; one
\* that returned after a failed operation stopped there and returned the
\* empty list.
C6_EverythingSequential ==
    what.kind = "Everything" =>
        /\ udp <= 1
        /\ pc = "bind" => udp = 0
        /\ Len(invs) <= Len(order)
        /\ \A i \in DOMAIN invs :
              /\ invs[i].bind = if_addrs[order[i]][1]
              /\ invs[i].dest = Broadcast
              /\ ~invs[i].single
        /\ pc \in {"bind", "set_broadcast", "set_read_timeout", "send_bc", "send_cx", "recv"} =>
              /\ idx = Len(invs) + 1
              /\ bind_addr = if_addrs[order[idx]][1]
              /\ send_addr = Broadcast
              /\ all = DevsOf(invs)
        /\ (pc = "done" /\ ioerr = "none") =>
              /\ Len(invs) = Len(order)
              /\ \A i \in DOMAIN invs : PortsOf(invs[i].sent) = Both
              /\ result = DevsOf(invs)
        /\ (pc = "done" /\ ioerr # "none") =>
              /\ result = <<>>
              /\ invs[Len(invs)].how = "io"
              /\ \A i \in 1..(Len(invs) - 1) : invs[i].how # "io"

\* an Everything scan over two interfaces returned a device from each
C6_Witness ==
    /\ what.kind = "Everything"
    /\ pc = "done"
    /\ ioerr = "none"
    /\ Len(invs) = 2
    /\ Len(invs[1].devs) = 1
    /\ Len(invs[2].devs) = 1
    /\ invs[1].devs # invs[2].devs
    /\ result = invs[1].devs \o invs[2].devs

\* the step is a successful receive in a broadcast invocation
BroadcastReceives ==
    /\ what.kind # "Address"
    /\ pc = "recv"
    /\ total' = total + 1

\* the invocation is still in its loop, on the same socket, one datagram on
StaysInLoop ==
    /\ pc' = "recv"
    /\ outcome' = "running"
    /\ udp' = udp
    /\ nrecv' = nrecv + 1
    /\ invs' = invs
    /\ idx' = idx

\* the step ends a broadcast invocation with Ok(beckhoffs)
BroadcastReturns ==
    /\ what.kind # "Address"
    /\ pc = "recv"
    /\ Len(invs') = Len(invs) + 1

\* C12 as claimed: a broadcast invocation stays in its receive loop after
\* every successful receive, and returns only on a receive that timed out
\* or failed.
C12_Original ==
    /\ [][BroadcastReceives => StaysInLoop]_vars
    /\ [][BroadcastReturns =>
            /\ total' = total
            /\ invs'[Len(invs')].how \in {"timeout", "error"}]_vars

\* C12, amended: a broadcast invocation never returns after a successful
\* receive; unless processing the datagram ends in a fatal fault, which
\* aborts the call without a return, it stays in its receive loop; and it
\* returns only on a receive that timed out or failed, with every datagram
\* received before counted.
C12_BroadcastRunsToTimeout ==
    /\ [][BroadcastReceives =>
            /\ outcome' # "returned"
            /\ pc' # "done"
            /\ \/ StaysInLoop
               \/ /\ outcome' = "panicked"
                  /\ fault' \in {"no local interface", "identify fields"}
                  /\ invs' = invs
                  /\ result' = <<>>]_vars
    /\ [][BroadcastReturns =>
            /\ total' = total
            /\ invs'[Len(invs')].how \in {"timeout", "error"}
            /\ invs'[Len(invs')].nrecv = nrecv
            /\ invs'[Len(invs')].devs = beckhoffs]_vars

\* an interface scan has received two datagrams, found two devices, and is
\* receiving still
C12_Witness ==
    /\ what.kind = "Interface"
    /\ pc = "recv"
    /\ nrecv = 2
    /\ Len(beckhoffs) = 2
    /\ outcome = "running"

\* the datagram matches neither format as its port has it decoded: from
\* the legacy port but not of the legacy layout, or from another port and
\* no identify response
Neither(d) ==
    \/ d.port = BECKHOFF_BC_UDP_PORT /\ ~d.payload.bc
    \/ d.port # BECKHOFF_BC_UDP_PORT /\ ~d.payload.cx

\* what the receive of d may have done to the device list
Dispatched(d) ==
    /\ \/ beckhoffs' = beckhoffs
       \/ /\ Len(beckhoffs') = Len(beckhoffs) + 1
          /\ SubSeq(beckhoffs', 1, Len(beckhoffs)) = beckhoffs
    /\ Neither(d) =>
          /\ beckhoffs' = beckhoffs
          /\ outcome' # "panicked"
          /\ fault' = "none"
          /\ ~logged'
          /\ ioerr' = "none"
    /\ beckhoffs' # beckhoffs =>
          /\ beckhoffs'[Len(beckhoffs')].bh_addr = d.addr
          /\ IF beckhoffs'[Len(beckhoffs')].is_bc
             THEN /\ d.port = BECKHOFF_BC_UDP_PORT
                  /\ d.payload.bc
                  /\ beckhoffs'[Len(beckhoffs')].netid = d.payload.bcid
             ELSE /\ d.port # BECKHOFF_BC_UDP_PORT
                  /\ d.payload.cx
                  /\ beckhoffs'[Len(beckhoffs')].netid = d.payload.cxid

\* C13: the receive of a datagram adds at most one record, at the end of
\* the list: a legacy record only if the datagram came from port 48847 and
\* decodes against the legacy layout, a modern record only if it came from
\* another port and parses as an identify response; a datagram from port
\* 48847 that fails the legacy decode, identify response or not, and one
\* from another port that is no identify response, leave the list as it
\* was, with no panic, no error logged and none returned.
\* (A receive that leaves the list alone and raises nothing is as the claim
\* has it whatever the datagram was; the others are compared with every
\* datagram they may be the receive of.)
C13_DispatchByPort ==
    [][(pc = "recv" /\ total' = total + 1) =>
            \/ /\ beckhoffs' = beckhoffs
               /\ outcome' # "panicked"
               /\ fault' = "none"
               /\ ~logged'
               /\ ioerr' = "none"
            \/ \A d \in Datagrams : RecvDatagram(d) => Dispatched(d)]_vars

\* an interface scan took an identify response from the legacy port, then
\* a legacy reply from it: one legacy record
C13_Witness ==
    /\ what.kind = "Interface"
    /\ pc = "recv"
    /\ nrecv = 2
    /\ Len(beckhoffs) = 1
    /\ beckhoffs[1].is_bc
    /\ beckhoffs[1].netid = NetIdA

\* the probes were sent from the invocation's socket to its destination
SentByThis(probes) ==
    \A i \in DOMAIN probes : probes[i].dest = send_addr /\ probes[i].from = bind_addr

\* C14: in every invocation one socket is alive from the bind to the end;
\* the probes sent so far are the legacy probe (port 48847) and then the
\* identify probe (port 48899), or the first of them, or none, all from
\* that socket's address to the invocation's destination; when it receives,
\* or has received, both have been sent; and after a failed legacy send no
\* probe of the invocation has been sent, after a failed identify send
\* only the legacy one, and nothing was received in either case.
C14_BothProbesBeforeReceive ==
    /\ pc \in {"set_broadcast", "set_read_timeout", "send_bc", "send_cx", "recv"} => udp = 1
    /\ pc \in {"call", "bind", "done"} => udp = 0
    /\ SentByThis(sent)
    /\ pc \in {"bind", "set_broadcast", "set_read_timeout", "send_bc"} => sent = <<>>
    /\ pc = "send_cx" => PortsOf(sent) = <<BECKHOFF_BC_UDP_PORT>>
    /\ (pc = "recv" \/ nrecv > 0) => PortsOf(sent) = Both
    /\ pc \in {"bind", "set_broadcast", "set_read_timeout", "send_bc", "send_cx"} => nrecv = 0
    /\ ioerr = "send_bc" => (sent = <<>> /\ nrecv = 0 /\ pc = "done")
    /\ ioerr = "send_cx" => (PortsOf(sent) = <<BECKHOFF_BC_UDP_PORT>> /\ nrecv = 0 /\ pc = "done")
    /\ \A i \in DOMAIN invs :
          /\ invs[i].nrecv > 0 => PortsOf(invs[i].sent) = Both
          /\ invs[i].how # "io" => PortsOf(invs[i].sent) = Both
          /\ \A j \in DOMAIN invs[i].sent :
                /\ invs[i].sent[j].dest = invs[i].dest
                /\ invs[i].sent[j].from = invs[i].bind

\* the second sub-scan of an Everything scan failed to send the legacy
\* probe, after the first had sent both and received a datagram
C14_Witness ==
    /\ what.kind = "Everything"
    /\ ioerr = "send_bc"
    /\ Len(invs) = 2
    /\ invs[1].nrecv = 1
    /\ PortsOf(invs[1].sent) = Both
    /\ invs[2].sent = <<>>

\* the step is a receive that failed with a socket error
RecvFailure ==
    /\ pc = "recv"
    /\ Len(invs') = Len(invs) + 1
    /\ invs'[Len(invs')].how = "error"

\* C15: a receive that fails with a socket error ends the invocation's loop
\* with the devices it had decoded: the invocation returns them, no error
\* is logged or recorded and nothing panics; an Address or Interface scan
\* returns them, and an Everything scan appends them to its list and goes on
\* to bind for the next interface, or returns the list after the last.
C15_RecvFailureKeepsDevices ==
    [][RecvFailure =>
            /\ invs'[Len(invs')].devs = beckhoffs
            /\ invs'[Len(invs')].nrecv = nrecv
            /\ total' = total
            /\ ~logged'
            /\ ioerr' = "none"
            /\ outcome' # "panicked"
            /\ IF what.kind = "Everything"
               THEN /\ all' = all \o beckhoffs
                    /\ IF idx < Len(order)
                       THEN /\ pc' = "bind"
                            /\ outcome' = "running"
                            /\ idx' = idx + 1
                            /\ bind_addr' = if_addrs[order[idx + 1]][1]
                            /\ send_addr' = Broadcast
                            /\ sent' = <<>>
                       ELSE /\ pc' = "done"
                            /\ outcome' = "returned"
                            /\ result' = all \o beckhoffs
               ELSE /\ pc' = "done"
                    /\ outcome' = "returned"
                    /\ result' = beckhoffs]_vars

\* an Everything scan whose first sub-scan found a device before its
\* receive failed is binding for the second interface
C15_Witness ==
    /\ what.kind = "Everything"
    /\ pc = "bind"
    /\ idx = 2
    /\ Len(invs) = 1
    /\ invs[1].how = "error"
    /\ Len(invs[1].devs) = 1
    /\ all = invs[1].devs

\* C17: in an Everything scan a failed bind, socket option or probe send
\* ends the call there: scan logs the error and returns the empty list,
\* whatever the sub-scans before had collected; the failed sub-scan is the
\* last invocation, so the interfaces after it in the iteration order are
\* never bound to or probed; and the call takes no step after the failure.
C17_EverythingStopsAtIoFailure ==
    /\ []((what.kind = "Everything" /\ ioerr # "none") =>
            /\ ioerr \in {"bind", "set_broadcast", "set_read_timeout", "send_bc", "send_cx"}
            /\ pc = "done"
            /\ outcome = "returned"
            /\ logged
            /\ result = <<>>
            /\ udp = 0
            /\ Len(invs) = idx
            /\ invs[idx].how = "io"
            /\ invs[idx].bind = if_addrs[order[idx]][1]
            /\ all = DevsOf(invs))
    /\ [][ioerr = "none"]_vars

\* the bind for the second interface failed after the first sub-scan had
\* found two devices: the list returned is empty
C17_Witness ==
    /\ what.kind = "Everything"
    /\ ioerr = "bind"
    /\ idx = 2
    /\ Len(all) = 2
    /\ result = <<>>
    /\ pc = "done"

\* C18: scan(Interface(name)) for a name that is not in the directory
\* panics at once: no socket was ever bound, no probe sent, no invocation
\* run, nothing returned or logged; for a name that is in it, the one
\* invocation binds to that interface's address, sends to 255.255.255.255
\* and is no single-reply one.
C18_InterfaceMustExist ==
    (what.kind = "Interface" /\ pc # "call") =>
        IF if_exists(what.name)
        THEN /\ fault # "no such interface"
             /\ bind_addr = if_addrs[what.name][1]
             /\ send_addr = Broadcast
             /\ ~single_reply
             /\ \A i \in DOMAIN sent :
                   sent[i].from = if_addrs[what.name][1] /\ sent[i].dest = Broadcast
             /\ Len(invs) <= 1
             /\ \A i \in DOMAIN invs : invs[i].bind = if_addrs[what.name][1]
        ELSE /\ pc = "panicked"
             /\ outcome = "panicked"
             /\ fault = "no such interface"
             /\ udp = 0
             /\ sent = <<>>
             /\ invs = <<>>
             /\ total = 0
             /\ result = <<>>
             /\ ~logged
             /\ ioerr = "none"

\* a scan of eth2, with eth0 and eth1 in the directory, has panicked
C18_Witness ==
    /\ what.kind = "Interface"
    /\ what.name = "eth2"
    /\ DOMAIN if_addrs = {"eth0", "eth1"}
    /\ outcome = "panicked"
    /\ fault = "no such interface"

-----------------------------------------------------------------------------
(* util.rs: AdsMessage *)

\* Rust's b[from..to] of a byte sequence (offsets from 0): in range or a panic
SliceOk(b, from, to) == to <= Len(b)
Slice(b, from, to) == SubSeq(b, from + 1, to)

\* LE::read_u32
read_u32(b) == b[1] + 256 * b[2] + 65536 * b[3] + 16777216 * b[4]

length_nohdr(b) == read_u32(Slice(b, 2, 6))

\* AdsMessage::length, on a buffer of at least 6 bytes (usize of 64 bits:
\* the sum does not overflow)
length(b) == 6 + read_u32(Slice(b, 2, 6))

\* AmsNetId::from_slice
from_slice(slice) == slice

\* the copy runs one byte over the field
CopyInto_wide(b, from, id) ==
    [i \in 1..Len(b) |->
        IF i > from /\ i <= from + 6 THEN id[i - from]
        ELSE IF i = from + 7 THEN 0
        ELSE b[i]]

\* b[from..from + 6].copy_from_slice(&id.0)
CopyInto(b, from, id) ==
    [i \in 1..Len(b) |-> IF i > from /\ i <= from + 6 THEN id[i - from] ELSE b[i]]

NoId == <<>>

\* AdsMessage::dest_id and source_id; NoId stands for the slice's panic
dest_id(b) == IF SliceOk(b, 6, 12) THEN from_slice(Slice(b, 6, 12)) ELSE NoId
source_id(b) == IF SliceOk(b, 14, 20) THEN from_slice(Slice(b, 14, 20)) ELSE NoId

\* the identifiers patched in
Ids == {NetIdA, NetIdB, <<0, 0, 0, 0, 0, 0>>}

\* a buffer of n bytes whose length field holds the bytes l
MkBuf(n, l) ==
    [i \in 1..n |-> IF i \in 3..6 THEN l[i - 2] ELSE (i * 37) % 256]

MsgBuffers ==
    { MkBuf(n, <<l0, l1, l2, l3>>) :
        n \in 0..MaxBuf, l0 \in (0..MaxBuf) \cup {255}, l1 \in {0, 1}, l2 \in {0, 1},
        l3 \in {0, 1} }

\* AdsMessage::new
New ==
    /\ UNCHANGED <<scanvars, idvars, netvars>>
    /\ mpc = "input"
    /\ IF ~SliceOk(buf, 2, 6)
       THEN mpc' = "panicked" /\ mfault' = "slice"
       ELSE IF length(buf) = Len(buf)
            THEN mpc' = "msg" /\ mfault' = "none"
            ELSE mpc' = "panicked" /\ mfault' = "assert"
    /\ UNCHANGED <<buf, buf0, lastpatch>>

\* self.0[from..from + 6].copy_from_slice(&id.0)
Patch(which, from, id) ==
    /\ mpc = "msg"
    /\ lastpatch' = <<which, id>>
    /\ IF SliceOk(buf, from, from + 6)
       THEN buf' = CopyInto(buf, from, id) /\ UNCHANGED <<mpc, mfault>>
       ELSE mpc' = "panicked" /\ mfault' = "patch" /\ UNCHANGED buf
    /\ UNCHANGED buf0

\* AdsMessage::patch_dest_id
PatchDest ==
    /\ UNCHANGED <<scanvars, idvars, netvars>>
    /\ \E id \in Ids : Patch("dest", 6, id)

\* AdsMessage::patch_source_id
PatchSource ==
    /\ UNCHANGED <<scanvars, idvars, netvars>>
    /\ \E id \in Ids : Patch("source", 14, id)

MsgInit ==
    /\ ScanIdle
    /\ IdIdle
    /\ NetIdle
    /\ mpc = "input"
    /\ buf \in MsgBuffers
    /\ buf0 = buf
    /\ lastpatch = <<>>
    /\ mfault = "none"

MsgNext ==
    \/ New
    \/ PatchDest
    \/ PatchSource

MsgSpec == MsgInit /\ [][MsgNext]_vars

-----------------------------------------------------------------------------
(* Claims about AdsMessage *)

\* the buffer holds a length field, and that field plus 6 is its length
Consistent(b) ==
    /\ Len(b) >= 6
    /\ b[3] + 256 * b[4] + 65536 * b[5] + 16777216 * b[6] + 6 = Len(b)

\* C7: a buffer whose length field plus 6 equals its length constructs, and
\* on every envelope a patch of the destination (source) identifier is
\* read back by dest_id (source_id) as the identifier patched in.
C7_PatchThenReadRoundTrips ==
    /\ (mpc # "input" /\ Consistent(buf0)) => mfault \notin {"slice", "assert"}
    /\ lastpatch # <<>> =>
          /\ mpc = "msg"
          /\ lastpatch[1] = "dest" => dest_id(buf) = lastpatch[2]
          /\ lastpatch[1] = "source" => source_id(buf) = lastpatch[2]

\* C8: every buffer whose length field plus 6 differs from its length (or
\* that is too short to hold the field) makes new panic, and every envelope
\* there is, patched or not, has a length field that agrees with its size.
C8_MismatchedLengthRejected ==
    /\ mpc = "msg" => Consistent(buf)
    /\ (mpc # "input" /\ ~Consistent(buf0)) => (mpc = "panicked" /\ mfault \in {"slice", "assert"})

\* new's assertion rejected a 20-byte buffer whose length field is not 14
C8_Witness ==
    /\ mpc = "panicked"
    /\ mfault = "assert"
    /\ Len(buf0) = 20
    /\ buf0[3] = 15

\* the positions (from 1) of bytes [6..12) and of bytes [14..20)
DestField == 7..12
SourceField == 15..20

\* b2 is b1 but for the bytes at the positions in field
SameOutside(b1, b2, field) ==
    /\ Len(b2) = Len(b1)
    /\ \A i \in 1..Len(b1) : i \notin field => b2[i] = b1[i]

\* the step is a call of the patch named, on an envelope
PatchCalled(which) ==
    /\ mpc = "msg"
    /\ lastpatch' # <<>>
    /\ lastpatch'[1] = which

\* C16: whatever patches an envelope has been through, its buffer has the
\* length it was built with, its length field still agrees with that
\* length, and every byte outside [6..12) and [14..20), the payload with
\* them, is as it was built; a call of patch_dest_id changes no byte outside
\* [6..12) and one of patch_source_id none outside [14..20).
C16_PatchesTouchOnlyTheirField ==
    /\ [](mpc = "msg" =>
            /\ Consistent(buf)
            /\ SameOutside(buf0, buf, DestField \cup SourceField))
    /\ [][PatchCalled("dest") => SameOutside(buf, buf', DestField)]_vars
    /\ [][PatchCalled("source") => SameOutside(buf, buf', SourceField)]_vars

\* a 22-byte envelope has had both identifiers patched, the source last, and
\* holds the two side by side
C16_Witness ==
    /\ mpc = "msg"
    /\ Len(buf) = 22
    /\ lastpatch = <<"source", NetIdB>>
    /\ dest_id(buf) = NetIdA
    /\ source_id(buf) = NetIdB
    /\ buf # buf0

-----------------------------------------------------------------------------
(* util.rs: AmsNetId *)

\* A string is the sequence of its characters.
DigitChars == <<"0", "1", "2", "3", "4", "5", "6", "7", "8", "9">>

IsDigit(c) == \E i \in 1..10 : DigitChars[i] = c
DigitOf(c) == (CHOOSE i \in 1..10 : DigitChars[i] = c) - 1

\* s.split('.'): the pieces between the dots, one more than there are dots
RECURSIVE SplitFrom(_, _)
SplitFrom(s, cur) ==
    IF s = <<>> THEN <<cur>>
    ELSE IF Head(s) = "." THEN <<cur>> \o SplitFrom(Tail(s), <<>>)
    ELSE SplitFrom(Tail(s), Append(cur, Head(s)))

Split(s) == SplitFrom(s, <<>>)

ParseOk(v) == [ok |-> TRUE, val |-> v]
ParseErr == [ok |-> FALSE, val |-> 0]

\* the digits of str::parse::<u8>, with wrapping arithmetic
RECURSIVE Accumulate_wrapping(_, _)
Accumulate_wrapping(ds, acc) ==
    IF ds = <<>> THEN ParseOk(acc)
    ELSE IF ~IsDigit(Head(ds)) THEN ParseErr
    ELSE Accumulate_wrapping(Tail(ds), (acc * 10 + DigitOf(Head(ds))) % 256)

\* the digits of str::parse::<u8>: checked_mul(10) and checked_add(digit)
RECURSIVE Accumulate(_, _)
Accumulate(ds, acc) ==
    IF ds = <<>> THEN ParseOk(acc)
    ELSE IF ~IsDigit(Head(ds)) THEN ParseErr
    ELSE IF acc * 10 > 255 THEN ParseErr
    ELSE IF acc * 10 + DigitOf(Head(ds)) > 255 THEN ParseErr
    ELSE Accumulate(Tail(ds), acc * 10 + DigitOf(Head(ds)))

ParseU8_wrapping(part) ==
    IF part = <<>> THEN ParseErr
    ELSE IF Head(part) = "+"
         THEN IF Tail(part) = <<>> THEN ParseErr ELSE Accumulate_wrapping(Tail(part), 0)
         ELSE Accumulate_wrapping(part, 0)

\* part.parse() to a u8: an optional '+', then one or more decimal digits
\* whose value fits a byte
ParseU8(part) ==
    IF part = <<>> THEN ParseErr
    ELSE IF Head(part) = "+"
         THEN IF Tail(part) = <<>> THEN ParseErr ELSE Accumulate(Tail(part), 0)
         ELSE Accumulate(part, 0)

IdOk(arr) == [ok |-> TRUE, id |-> arr]
\* Err("invalid NetID string")
IdErr == [ok |-> FALSE, id |-> <<>>]

DefaultArr_zero == [i \in 1..6 |-> 0]

\* let mut arr = [1; 6]
DefaultArr == [i \in 1..6 |-> 1]

\* the loop of from_str over the parts, from the i-th (counted from 1)
RECURSIVE Fill(_, _, _)
Fill(ps, i, arr) ==
    IF ps = <<>> THEN IdOk(arr)
    ELSE IF i <= 6 /\ ParseU8(Head(ps)).ok
         THEN Fill(Tail(ps), i + 1, [arr EXCEPT ![i] = ParseU8(Head(ps)).val])
         ELSE IdErr

\* AmsNetId::from_str
from_str(s) == Fill(Split(s), 1, DefaultArr)

\* a u8 through {}: its decimal digits
RECURSIVE Decimal(_)
Decimal(n) ==
    IF n < 10 THEN <<DigitChars[n + 1]>>
    ELSE Decimal(n \div 10) \o <<DigitChars[(n % 10) + 1]>>

\* itertools' format(sep): the items' texts with sep between them
RECURSIVE JoinWith(_, _)
JoinWith(texts, sep) ==
    IF texts = <<>> THEN <<>>
    ELSE IF Len(texts) = 1 THEN texts[1]
    ELSE texts[1] \o sep \o JoinWith(Tail(texts), sep)

\* Display for AmsNetId: self.0.iter().format(".")
fmt(id) == JoinWith([i \in DOMAIN id |-> Decimal(id[i])], <<".">>)

\* The components the input strings are written from: the text, the byte
\* value it denotes (-1: none), and whether the text is that value's plain
\* decimal form.
Part(text, val, canon) == [text |-> text, val |-> val, canon |-> canon]

GoodParts ==
    { Part(<<"0">>, 0, TRUE), Part(<<"1">>, 1, TRUE), Part(<<"2", "5", "5">>, 255, TRUE) }

OddParts ==
    { Part(<<"0", "1">>, 1, FALSE), Part(<<"+", "7">>, 7, FALSE),
      Part(<<>>, -1, FALSE), Part(<<"2", "5", "6">>, -1, FALSE),
      Part(<<"x">>, -1, FALSE), Part(<<"-", "1">>, -1, FALSE) }

\* 1..MaxParts components, at most one of them an odd one
PartSeqs ==
    UNION { [1..k -> GoodParts] \cup
            { [g EXCEPT ![i] = o] : g \in [1..k -> GoodParts], i \in 1..k, o \in OddParts } :
            k \in 1..MaxParts }

\* s.parse::<AmsNetId>()
FromStr ==
    /\ UNCHANGED <<scanvars, msgvars, netvars>>
    /\ ipc = "input"
    /\ parsed' = from_str(str)
    /\ ipc' = "parsed"
    /\ UNCHANGED <<parts, str, shown>>

\* format!("{}", id) of the identifier parsed
Show ==
    /\ UNCHANGED <<scanvars, msgvars, netvars>>
    /\ ipc = "parsed"
    /\ parsed.ok
    /\ shown' = fmt(parsed.id)
    /\ ipc' = "shown"
    /\ UNCHANGED <<parts, str, parsed>>

IdInit ==
    /\ ScanIdle
    /\ MsgIdle
    /\ NetIdle
    /\ ipc = "input"
    /\ parts \in PartSeqs
    /\ str = JoinWith([i \in DOMAIN parts |-> parts[i].text], <<".">>)
    /\ parsed = <<>>
    /\ shown = <<>>

IdNext ==
    \/ FromStr
    \/ Show

IdSpec == IdInit /\ [][IdNext]_vars

-----------------------------------------------------------------------------
(* Claims about AmsNetId *)

\* every component denotes a byte value
AllBytes(ps) == \A i \in DOMAIN ps : ps[i].val >= 0

\* the values in order, then 1 for each of the six bytes not given
Expected(ps) == [i \in 1..6 |-> IF i <= Len(ps) THEN ps[i].val ELSE 1]

\* the plain decimal form of the byte values the components denote
PlainText(v) ==
    CASE v = 0 -> <<"0">>
      [] v = 1 -> <<"1">>
      [] v = 7 -> <<"7">>
      [] v = 255 -> <<"2", "5", "5">>

SixJoined(id) ==
    PlainText(id[1]) \o <<".">> \o PlainText(id[2]) \o <<".">> \o PlainText(id[3])
        \o <<".">> \o PlainText(id[4]) \o <<".">> \o PlainText(id[5])
        \o <<".">> \o PlainText(id[6])

\* C9 as claimed: a string of k <= 6 byte values parses to those values
\* followed by 1s, formats as the six decimal values joined by dots, and
\* the formatted text is the input exactly when k = 6.
C9_Original ==
    (AllBytes(parts) /\ Len(parts) <= 6) =>
        /\ ipc \in {"parsed", "shown"} => parsed = IdOk(Expected(parts))
        /\ ipc = "shown" =>
              /\ shown = SixJoined(Expected(parts))
              /\ (shown = str) <=> (Len(parts) = 6)

\* C9, amended: ... and the formatted text is the input exactly when
\* k = 6 and every component is written in plain decimal form (no leading
\* zero, no '+' sign).
C9_ParseThenFormat ==
    (AllBytes(parts) /\ Len(parts) <= 6) =>
        /\ ipc \in {"parsed", "shown"} => parsed = IdOk(Expected(parts))
        /\ ipc = "shown" =>
              /\ shown = SixJoined(Expected(parts))
              /\ (shown = str) <=> (Len(parts) = 6 /\ \A i \in DOMAIN parts : parts[i].canon)

\* three components were parsed, 255 among them, the rest filled with 1,
\* and the six formatted
C9_Witness ==
    /\ ipc = "shown"
    /\ Len(parts) = 3
    /\ parts[2].val = 255
    /\ parsed.id[3] = 0
    /\ parsed.id[4] = 1
    /\ Len(shown) > Len(str)

\* the string has a component that is empty, not a number or above 255, or
\* more than 6 components
Rejected(ps) == Len(ps) > 6 \/ \E i \in DOMAIN ps : ps[i].val < 0

\* C10: a string with an empty, non-numeric or too large component, or with
\* more than 6 components (the empty string and a leading, trailing or
\* doubled dot among them), parses to the error value: from_str returns,
\* and no identifier comes of it.
C10_BadStringsGiveFormatError ==
    (ipc # "input" /\ Rejected(parts)) =>
        /\ ipc = "parsed"
        /\ parsed = IdErr
        /\ shown = <<>>

\* seven byte values were given and the error returned
C10_Witness ==
    /\ ipc = "parsed"
    /\ Len(parts) = 7
    /\ AllBytes(parts)
    /\ parsed = IdErr

-----------------------------------------------------------------------------
(* util.rs: in_same_net *)

Pow2 == <<1, 2, 4, 8, 16, 32, 64, 128, 256>>

\* the netmask of an n-bit prefix, n in 0..32
PrefixMask(n) ==
    [i \in 1..4 |->
        IF n >= 8 * i THEN 255
        ELSE IF n <= 8 * (i - 1) THEN 0
        ELSE 256 - Pow2[8 * i - n + 1]]

\* addresses given to in_same_net: the extremes, the local interfaces', the
\* devices', and some that differ from those in one bit
NetAddrs ==
    { Wildcard, Broadcast, <<128, 0, 0, 1>>, <<192, 168, 1, 11>>, <<192, 168, 3, 10>>,
      <<10, 0, 0, 4>> }
    \cup { IfPool[n][1] : n \in IfNames } \cup DevAddrs

\* netmasks given to it: every prefix mask, and some that are no prefix
NetMasks ==
    { PrefixMask(n) : n \in 0..32 }
    \cup { <<0, 0, 0, 1>>, <<255, 0, 255, 0>>, <<85, 85, 85, 85>>, <<0, 255, 255, 255>> }

\* in_same_net(addr1, addr2, netmask)
InSameNet ==
    /\ UNCHANGED <<scanvars, msgvars, idvars>>
    /\ npc = "input"
    /\ same' = in_same_net(net1, net2, netmask0)
    /\ npc' = "tested"
    /\ UNCHANGED <<net1, net2, netmask0>>

NetInit ==
    /\ ScanIdle
    /\ MsgIdle
    /\ IdIdle
    /\ npc = "input"
    /\ net1 \in NetAddrs
    /\ net2 \in NetAddrs
    /\ netmask0 \in NetMasks
    /\ same = FALSE

NetNext ==
    \/ InSameNet

NetSpec == NetInit /\ [][NetNext]_vars

-----------------------------------------------------------------------------
(* Claims about in_same_net *)

\* bit k (0 the lowest) of an octet
Bit(x, k) == (x \div Pow2[k + 1]) % 2

\* a & mask == b & mask, said of the 32 bits one by one: wherever the mask
\* has a 1, a and b have the same bit
AgreeUnderMask(a, b, m) ==
    \A i \in 1..4 : \A k \in 0..7 : Bit(m[i], k) = 1 => Bit(a[i], k) = Bit(b[i], k)

\* C11: in_same_net(a, b, mask) is true exactly when a & mask == b & mask;
\* with the mask all ones, exactly when a == b; with the mask 0, always.
C11_SameNetIsMaskedEquality ==
    npc = "tested" =>
        /\ same <=> AgreeUnderMask(net1, net2, netmask0)
        /\ netmask0 = Broadcast => (same <=> net1 = net2)
        /\ netmask0 = Wildcard => same

\* two different addresses were found in the same /23 network
C11_Witness ==
    /\ npc = "tested"
    /\ same
    /\ net1 = <<192, 168, 2, 10>>
    /\ net2 = <<192, 168, 3, 10>>
    /\ netmask0 = <<255, 255, 254, 0>>

====
